---- MODULE Spec2Model ----
(***************************************************************************)
(* State machine of the spreadsheet-to-chart editor in src/src/App.tsx:    *)
(* the Column Registry (series), the Row Store (rows), the mapping slots,  *)
(* the multi-series selection, the rename / drag / sweep interaction state *)
(* and the two reconciling effects.                                        *)
(*                                                                         *)
(* JavaScript strings are sequences of one-character strings, so that      *)
(* trim(), toLowerCase(), Number() and String() are computed, not assumed. *)
(***************************************************************************)
EXTENDS Integers, Sequences, FiniteSets, TLC

(***************************************************************************)
(* Bounds of the model: how many of the initial columns and rows are kept. *)
(***************************************************************************)
NumSeries == 3
NumRows == 3
\* the number of cells of the table that hold a typed value at a time
MaxTypedCells == 1

(***************************************************************************)
(* Strings                                                                 *)
(***************************************************************************)
Space == " "

Digits == <<"0", "1", "2", "3", "4", "5", "6", "7", "8", "9">>

UpperCase == <<"A", "B", "C", "D", "E", "F", "G", "H", "I", "J", "K", "L", "M",
               "N", "O", "P", "Q", "R", "S", "T", "U", "V", "W", "X", "Y", "Z">>

LowerCase == <<"a", "b", "c", "d", "e", "f", "g", "h", "i", "j", "k", "l", "m",
               "n", "o", "p", "q", "r", "s", "t", "u", "v", "w", "x", "y", "z">>

IsDigit(c) == \E i \in 1..10 : Digits[i] = c

DigitVal(c) == (CHOOSE i \in 1..10 : Digits[i] = c) - 1

\* String.prototype.toLowerCase on one character
LowerChar(c) ==
  IF \E i \in 1..26 : UpperCase[i] = c
    THEN LowerCase[CHOOSE i \in 1..26 : UpperCase[i] = c]
    ELSE c

\* String.prototype.toLowerCase
toLowerCase(s) == [i \in 1..Len(s) |-> LowerChar(s[i])]

RECURSIVE TrimStart(_)
TrimStart(s) ==
  IF s # <<>> /\ Head(s) = Space THEN TrimStart(Tail(s)) ELSE s

RECURSIVE TrimEnd(_)
TrimEnd(s) ==
  IF s # <<>> /\ s[Len(s)] = Space THEN TrimEnd(SubSeq(s, 1, Len(s) - 1)) ELSE s

\* String.prototype.trim
trim(s) == TrimEnd(TrimStart(s))

(***************************************************************************)
(* JavaScript values held by a row: undefined, boolean, number, string.    *)
(* A number is kept as sign, integer part and fraction digits without      *)
(* trailing zeros; -0 is kept as 0, from which ===, String() and Set.has   *)
(* cannot tell it apart.  Infinity and -Infinity are numbers too; NaN is   *)
(* the result of a conversion only, no row holds it.                       *)
(***************************************************************************)
Undefined == [t |-> "undefined"]

Bool(b) == [t |-> "boolean", b |-> b]

Str(s) == [t |-> "string", s |-> s]

Num(neg, int, frac) ==
  [t |-> "number", neg |-> (neg /\ (int # 0 \/ frac # <<>>)), int |-> int, frac |-> frac]

NumInt(n) == Num(FALSE, n, <<>>)

Infinity(neg) == [t |-> "number", neg |-> neg, inf |-> TRUE]

NaN == [t |-> "number", nan |-> TRUE]

IsInfinite(v) == v.t = "number" /\ "inf" \in DOMAIN v

\* isNaN(v) for a number
IsNaN(v) == v.t = "number" /\ "nan" \in DOMAIN v

RECURSIVE DigitsOf(_)
DigitsOf(n) ==
  IF n < 10 THEN <<Digits[n + 1]>> ELSE Append(DigitsOf(n \div 10), Digits[(n % 10) + 1])

RECURSIVE ParseNat(_)
ParseNat(s) ==
  IF s = <<>> THEN 0 ELSE 10 * ParseNat(SubSeq(s, 1, Len(s) - 1)) + DigitVal(s[Len(s)])

RECURSIVE StripZeros(_)
StripZeros(s) ==
  IF s # <<>> /\ s[Len(s)] = "0" THEN StripZeros(SubSeq(s, 1, Len(s) - 1)) ELSE s

AllDigits(s) == s # <<>> /\ \A i \in 1..Len(s) : IsDigit(s[i])

HasSign(s) == s # <<>> /\ Head(s) \in {"+", "-"}

Unsigned(s) == IF HasSign(s) THEN Tail(s) ELSE s

DotAt(s) == IF \E i \in 1..Len(s) : s[i] = "." THEN CHOOSE i \in 1..Len(s) : s[i] = "." /\ \A j \in 1..(i - 1) : s[j] # "." ELSE 0

\* value.match(/^[-+]?\d+(\.\d+)?$/)
MatchesNumberPattern(s) ==
  LET u == Unsigned(s)
      d == DotAt(u)
  IN IF d = 0 THEN AllDigits(u)
     ELSE AllDigits(SubSeq(u, 1, d - 1)) /\ AllDigits(SubSeq(u, d + 1, Len(u)))

\* Number(value) for a string matching the pattern above
NumberOf(s) ==
  LET u == Unsigned(s)
      d == DotAt(u)
      neg == HasSign(s) /\ Head(s) = "-"
  IN IF d = 0 THEN Num(neg, ParseNat(u), <<>>)
     ELSE Num(neg, ParseNat(SubSeq(u, 1, d - 1)), StripZeros(SubSeq(u, d + 1, Len(u))))

\* String(v)
String(v) ==
  CASE v.t = "string" -> v.s
    [] IsInfinite(v) ->
         (IF v.neg THEN <<"-">> ELSE <<>>) \o <<"I", "n", "f", "i", "n", "i", "t", "y">>
    [] v.t = "number" /\ ~IsInfinite(v) ->
         (IF v.neg THEN <<"-">> ELSE <<>>) \o DigitsOf(v.int)
           \o (IF v.frac = <<>> THEN <<>> ELSE <<".">> \o v.frac)
    [] v.t = "boolean" -> IF v.b THEN <<"t", "r", "u", "e">> ELSE <<"f", "a", "l", "s", "e">>
    [] OTHER -> <<"u", "n", "d", "e", "f", "i", "n", "e", "d">>

\* !v
Falsy(v) ==
  CASE v.t = "undefined" -> TRUE
    [] v.t = "boolean" -> ~v.b
    [] v.t = "string" -> v.s = <<>>
    [] IsInfinite(v) -> FALSE
    [] OTHER -> v.int = 0 /\ v.frac = <<>>

\* Number(value) for a string that, once its white space is stripped, is
\* empty, a decimal literal without exponent, Infinity with or without a
\* sign, or a text that is no numeric literal at all
StringToNumber(s) ==
  LET t == trim(s)
  IN IF t = <<>> THEN NumInt(0)
     ELSE IF MatchesNumberPattern(t) THEN NumberOf(t)
     ELSE IF Unsigned(t) = <<"I", "n", "f", "i", "n", "i", "t", "y">>
       THEN Infinity(HasSign(t) /\ Head(t) = "-")
     ELSE NaN

(***************************************************************************)
(* Initial data                                                            *)
(***************************************************************************)
palette == <<"#ef4444", "#f59e0b", "#3b82f6", "#10b981", "#6366f1", "#ec4899", "#14b8a6">>

\* the ids of the initial columns, and each id as a JavaScript string
AllSeriesIds == <<"Revenue", "COGS", "Operating Expenses", "R&D", "Net Profit">>

IdChars(id) ==
  CASE id = "Revenue" -> <<"R", "e", "v", "e", "n", "u", "e">>
    [] id = "COGS" -> <<"C", "O", "G", "S">>
    [] id = "Operating Expenses" -> <<"O", "p", "e", "r", "a", "t", "i", "n", "g", " ", "E", "x", "p", "e", "n", "s", "e", "s">>
    [] id = "R&D" -> <<"R", "&", "D">>
    [] id = "Net Profit" -> <<"N", "e", "t", " ", "P", "r", "o", "f", "i", "t">>

AllInitialCells ==
  <<<<120, 48, 30, 12, 30>>,
    <<135, 53, 33, 14, 35>>,
    <<155, 60, 36, 16, 43>>,
    <<178, 68, 40, 18, 52>>,
    <<205, 78, 44, 20, 63>>,
    <<236, 90, 49, 22, 75>>,
    <<264, 100, 53, 24, 87>>>>

AllInitialKeys == <<2019, 2020, 2021, 2022, 2023, 2024, 2025>>

(***************************************************************************)
(* Sequence helpers (Array.prototype.filter, includes, findIndex, splice)  *)
(***************************************************************************)
Includes(seq, x) == \E i \in 1..Len(seq) : seq[i] = x

\* prev.filter(x => x !== id)
Without(seq, x) == SelectSeq(seq, LAMBDA y : y # x)

Min(a, b) == IF a < b THEN a ELSE b

\* clone.splice(i, 1): the sequence without its element at index i (1-based)
RemoveAt(seq, i) == SubSeq(seq, 1, i - 1) \o SubSeq(seq, i + 1, Len(seq))

\* clone.splice(i, 0, x) with i the number of elements before x (0-based start)
InsertAt(seq, i, x) ==
  LET k == Min(i, Len(seq))
  IN SubSeq(seq, 1, k) \o <<x>> \o SubSeq(seq, k + 1, Len(seq))

(***************************************************************************)
(* The state of App (useState and useRef cells)                            *)
(***************************************************************************)
VARIABLES
  rows,               \* Row Store: sequence of [key, hidden, fields]
  series,             \* Column Registry: sequence of [id, label, color, visible]
  selectedSeriesIds,  \* multi-series selection, a sequence of column ids
  labelColumn, scatterXColumn, scatterYColumn, scatterSizeColumn,
  scatterColorColumn, barColorColumn, pieSeriesColumn, histogramColumn,
  chartType, histogramBins,
  editingSeriesId, editingValue,
  dragSeriesId, dragRowKey, rowDragOverKey, rowDragPosition,
  dragSession,        \* the browser's drag-and-drop operation, begun by a dragstart
  editingRowIndex, editingRowValue,
  sweepActive, sweepRowSet, sweepSeriesSet,
  effects,            \* the effects React has queued for the committed render
  lastDrop,           \* history: the last drop's inputs and the order before it
  lastChange,         \* history: the mapping state before the last visibility change,
                      \* or the rename handler that ran last and what it was given
  sweepSeen           \* history: visibility at the press and the headers touched

slotVars == <<labelColumn, scatterXColumn, scatterYColumn, scatterSizeColumn,
              scatterColorColumn, barColorColumn, pieSeriesColumn, histogramColumn>>

chartVars == <<chartType, histogramBins>>

renameVars == <<editingSeriesId, editingValue>>

rowEditVars == <<editingRowIndex, editingRowValue>>

dragVars == <<dragSeriesId, dragRowKey, rowDragOverKey, rowDragPosition, dragSession>>

sweepVars == <<sweepActive, sweepRowSet, sweepSeriesSet>>

vars == <<rows, series, selectedSeriesIds, slotVars, chartVars, renameVars,
          rowEditVars, dragVars, sweepVars, effects, lastDrop, lastChange, sweepSeen>>

\* null for a column id, for a row key, for a row index (indices are 1-based
\* here, 0-based in the source) and for 'row' | 'series' | 'above' | 'below'
NullId == "null"

NullKey == [t |-> "null"]

NullIndex == 0

KeyColumn == "key"

HiddenProperty == "_hidden"

None == ""

SeriesIds == {AllSeriesIds[i] : i \in 1..NumSeries}

InitialSeries ==
  [i \in 1..NumSeries |->
     [id |-> AllSeriesIds[i], label |-> IdChars(AllSeriesIds[i]),
      color |-> palette[i], visible |-> TRUE]]

InitialRows ==
  [r \in 1..NumRows |->
     [key |-> NumInt(AllInitialKeys[r]), hidden |-> Undefined,
      fields |-> [id \in SeriesIds |->
                    NumInt(AllInitialCells[r][CHOOSE i \in 1..NumSeries : AllSeriesIds[i] = id])]]]

ChartTypes ==
  {"line", "bar", "stackedBar", "area", "radar", "pie", "donut", "histogram", "scatter"}

NoDrop == [kind |-> "none"]

NoChange == [kind |-> "none"]

NoSweep == [kind |-> "none"]

\* series.filter(s => s.visible).map(s => s.id)
VisibleIds(ser) ==
  LET vis == SelectSeq(ser, LAMBDA s : s.visible)
  IN [i \in 1..Len(vis) |-> vis[i].id]

SeriesOrder(ser) == [i \in 1..Len(ser) |-> ser[i].id]

RowOrder(rs) == [i \in 1..Len(rs) |-> rs[i].key]

\* prev.findIndex(p), 1-based; 0 stands for -1
IndexOfId(ser, id) ==
  IF \E i \in 1..Len(ser) : ser[i].id = id
    THEN CHOOSE i \in 1..Len(ser) : ser[i].id = id /\ \A j \in 1..(i - 1) : ser[j].id # id
    ELSE 0

IndexOfKey(rs, key) ==
  IF \E i \in 1..Len(rs) : rs[i].key = key
    THEN CHOOSE i \in 1..Len(rs) : rs[i].key = key /\ \A j \in 1..(i - 1) : rs[j].key # key
    ELSE 0

\* row[column]
Prop(row, column) ==
  IF column = KeyColumn THEN row.key
  ELSE IF column = HiddenProperty THEN row.hidden
  ELSE IF column \in DOMAIN row.fields THEN row.fields[column]
  ELSE Undefined

Init ==
  /\ rows = InitialRows
  /\ series = InitialSeries
  /\ selectedSeriesIds = VisibleIds(InitialSeries)
  /\ labelColumn = KeyColumn
  /\ scatterXColumn = KeyColumn
  /\ scatterYColumn = "Revenue"
  /\ scatterSizeColumn = None
  /\ scatterColorColumn = None
  /\ barColorColumn = None
  /\ pieSeriesColumn = "Revenue"
  /\ histogramColumn = "Revenue"
  /\ chartType = "line"
  /\ histogramBins = 10
  /\ editingSeriesId = NullId
  /\ editingValue = <<>>
  /\ dragSeriesId = NullId
  /\ dragRowKey = NullKey
  /\ rowDragOverKey = NullKey
  /\ rowDragPosition = "null"
  /\ dragSession = "null"
  /\ editingRowIndex = NullIndex
  /\ editingRowValue = <<>>
  /\ sweepActive = "null"
  /\ sweepRowSet = {}
  /\ sweepSeriesSet = {}
  /\ effects = {"selection", "slots"}
  /\ lastDrop = NoDrop
  /\ lastChange = NoChange
  /\ sweepSeen = NoSweep

(***************************************************************************)
(* Event order of the DOM.  A click, a double click and a dragstart follow *)
(* a release of the primary button, and the window's mouseup listener has  *)
(* run endSweep by then; a press on a header takes the focus from a rename *)
(* input, so no key reaches the input while the button is held; React runs *)
(* the queued effects of a render before it dispatches the next event.     *)
(***************************************************************************)
AtRest == effects = {}

PointerFree == AtRest /\ sweepActive = "null" /\ dragSession = "null"

\* a drag-and-drop operation is under way and nothing was dropped yet: the
\* browser dispatches dragover and drop to the elements under the pointer,
\* whatever is dragged, and no mouse or key event
DragOver == AtRest /\ dragSession \in {"series", "row"}

\* the operation after a drop: the browser dispatches dragend to the element
\* the drag started on, which bubbles to the row of a row's handle
AfterDrop == IF dragSession = "row" THEN "rowDropped" ELSE "null"

\* what the mapping state was before a change of column visibility
Snapshot ==
  [kind |-> "visibility", selected |-> selectedSeriesIds,
   label |-> labelColumn, pie |-> pieSeriesColumn, histogram |-> histogramColumn,
   scatterY |-> scatterYColumn]

(***************************************************************************)
(* Column Registry                                                         *)
(***************************************************************************)
\* prev.filter(s => s.id !== id)
RemovedSeries(prev, id) == SelectSeq(prev, LAMBDA s : s.id # id)

\* prev.map(s => s.id === id ? { ...s, visible: !s.visible } : s)
ToggledSeries(prev, id) ==
  [i \in 1..Len(prev) |->
     IF prev[i].id = id THEN [prev[i] EXCEPT !.visible = ~prev[i].visible] ELSE prev[i]]

\* toggleSeriesVisible(id) without its second update, which leaves the
\* selection to the effect
ToggleSeriesVisibleOnly(id) ==
  /\ series' = ToggledSeries(series, id)
  /\ selectedSeriesIds' = selectedSeriesIds
  /\ effects' = {"selection", "slots"}
  /\ lastChange' = Snapshot

\* toggleSeriesVisible(id): both state updates of the handler
ToggleSeriesVisibleUpdates(id) ==
  /\ series' = ToggledSeries(series, id)
  /\ selectedSeriesIds' = Without(selectedSeriesIds, id)
  /\ effects' = {"selection", "slots"}
  /\ lastChange' = Snapshot

\* click on a header's visibility button (rendered unless the header is renamed)
toggleSeriesVisible(id) ==
  /\ PointerFree
  /\ editingSeriesId # id
  /\ ToggleSeriesVisibleUpdates(id)
  /\ lastDrop' = NoDrop
  /\ UNCHANGED <<rows, slotVars, chartVars, renameVars, rowEditVars, dragVars,
                 sweepVars, sweepSeen>>

showAllSeries ==
  /\ PointerFree
  /\ series' = [i \in 1..Len(series) |-> [series[i] EXCEPT !.visible = TRUE]]
  /\ effects' = {"selection", "slots"}
  /\ lastChange' = Snapshot
  /\ lastDrop' = NoDrop
  /\ UNCHANGED <<rows, selectedSeriesIds, slotVars, chartVars, renameVars, rowEditVars,
                 dragVars, sweepVars, sweepSeen>>

startRenameSeries(id) ==
  /\ PointerFree
  /\ LET i == IndexOfId(series, id)
     IN IF i = 0
          THEN UNCHANGED renameVars
          ELSE /\ editingSeriesId' = id
               /\ editingValue' = series[i].label
  /\ lastDrop' = NoDrop
  /\ lastChange' = NoChange
  /\ UNCHANGED <<rows, series, selectedSeriesIds, slotVars, chartVars, rowEditVars,
                 dragVars, sweepVars, effects, sweepSeen>>

\* onChange of the header's input, which is rendered while a column is renamed
setEditingValue(text) ==
  /\ PointerFree
  /\ editingSeriesId # NullId
  /\ editingValue' = text
  /\ lastDrop' = NoDrop
  /\ lastChange' = NoChange
  /\ UNCHANGED <<rows, series, selectedSeriesIds, slotVars, chartVars, editingSeriesId,
                 rowEditVars, dragVars, sweepVars, effects, sweepSeen>>

\* the duplicate check comparing the labels as written
LabelTakenExact(ser, id, trimmed) ==
  \E i \in 1..Len(ser) : ser[i].id # id /\ ser[i].label = trimmed

\* series.some(s => s.id !== editingSeriesId && s.label.toLowerCase() === trimmed.toLowerCase())
LabelTaken(ser, id, trimmed) ==
  \E i \in 1..Len(ser) :
    ser[i].id # id /\ toLowerCase(ser[i].label) = toLowerCase(trimmed)

\* the updater that also shows the renamed column
RenamedAndShown(prev, id, trimmed) ==
  [i \in 1..Len(prev) |->
     IF prev[i].id = id THEN [prev[i] EXCEPT !.label = trimmed, !.visible = TRUE]
     ELSE prev[i]]

\* prev.map(s => s.id === editingSeriesId ? { ...s, label: trimmed } : s)
RenamedSeries(prev, id, trimmed) ==
  [i \in 1..Len(prev) |->
     IF prev[i].id = id THEN [prev[i] EXCEPT !.label = trimmed] ELSE prev[i]]

\* Enter or blur of the input; the function returns at once when nothing is renamed
commitRenameSeries ==
  /\ PointerFree
  /\ LET trimmed == trim(editingValue)
     IN IF editingSeriesId = NullId
          THEN UNCHANGED <<series, editingSeriesId, effects>>
        ELSE IF trimmed = <<>> \/ LabelTaken(series, editingSeriesId, trimmed)
          THEN /\ editingSeriesId' = NullId
               /\ UNCHANGED <<series, effects>>
        ELSE /\ series' = RenamedSeries(series, editingSeriesId, trimmed)
             /\ editingSeriesId' = NullId
             /\ effects' = {"selection", "slots"}
  /\ lastDrop' = NoDrop
  /\ lastChange' = [kind |-> "commitRenameSeries", id |-> editingSeriesId]
  /\ UNCHANGED <<rows, selectedSeriesIds, slotVars, chartVars, editingValue, rowEditVars,
                 dragVars, sweepVars, sweepSeen>>

\* the handler that leaves the header in edit mode
cancelRenameKeepingMode ==
  /\ PointerFree
  /\ lastDrop' = NoDrop
  /\ lastChange' = [kind |-> "cancelRename"]
  /\ UNCHANGED <<rows, series, selectedSeriesIds, slotVars, chartVars, renameVars,
                 rowEditVars, dragVars, sweepVars, effects, sweepSeen>>

cancelRename ==
  /\ PointerFree
  /\ editingSeriesId' = NullId
  /\ lastDrop' = NoDrop
  /\ lastChange' = [kind |-> "cancelRename"]
  /\ UNCHANGED <<rows, series, selectedSeriesIds, slotVars, chartVars, editingValue,
                 rowEditVars, dragVars, sweepVars, effects, sweepSeen>>

\* dragstart of a header's drag handle (rendered unless the header is renamed)
onSeriesDragStart(id) ==
  /\ PointerFree
  /\ editingSeriesId # id
  /\ dragSeriesId' = id
  /\ dragSession' = "series"
  /\ lastDrop' = NoDrop
  /\ lastChange' = NoChange
  /\ UNCHANGED <<rows, series, selectedSeriesIds, slotVars, chartVars, renameVars,
                 rowEditVars, dragRowKey, rowDragOverKey, rowDragPosition, sweepVars,
                 effects, sweepSeen>>

\* dragend of a column's drag handle, dropped nowhere: no element of the
\* header row listens to it
seriesDragEnd ==
  /\ AtRest
  /\ dragSession = "series"
  /\ dragSession' = "null"
  /\ lastDrop' = NoDrop
  /\ lastChange' = NoChange
  /\ UNCHANGED <<rows, series, selectedSeriesIds, slotVars, chartVars, renameVars,
                 rowEditVars, dragSeriesId, dragRowKey, rowDragOverKey, rowDragPosition,
                 sweepVars, effects, sweepSeen>>

\* the updater exchanging the source and the target
SwappedSeries(prev, sourceId, targetId) ==
  LET srcIdx == IndexOfId(prev, sourceId)
      tgtIdx == IndexOfId(prev, targetId)
  IN IF srcIdx = 0 \/ tgtIdx = 0 THEN prev
     ELSE [prev EXCEPT ![srcIdx] = prev[tgtIdx], ![tgtIdx] = prev[srcIdx]]

\* the updater inserting before the target wherever the source was
MovedSeriesBefore(prev, sourceId, targetId) ==
  LET srcIdx == IndexOfId(prev, sourceId)
      tgtIdx == IndexOfId(prev, targetId)
  IN IF srcIdx = 0 \/ tgtIdx = 0 THEN prev
     ELSE InsertAt(RemoveAt(prev, srcIdx), IF srcIdx < tgtIdx THEN tgtIdx - 2 ELSE tgtIdx - 1,
                   prev[srcIdx])

\* the updater inserting after the target's index
MovedSeriesAfter(prev, sourceId, targetId) ==
  LET srcIdx == IndexOfId(prev, sourceId)
      tgtIdx == IndexOfId(prev, targetId)
  IN IF srcIdx = 0 \/ tgtIdx = 0 THEN prev
     ELSE InsertAt(RemoveAt(prev, srcIdx), tgtIdx, prev[srcIdx])

\* the updater of onSeriesDrop
MovedSeries(prev, sourceId, targetId) ==
  LET srcIdx == IndexOfId(prev, sourceId)
      tgtIdx == IndexOfId(prev, targetId)
  IN IF srcIdx = 0 \/ tgtIdx = 0 THEN prev
     ELSE InsertAt(RemoveAt(prev, srcIdx), tgtIdx - 1, prev[srcIdx])

\* drop on a column header, of whatever is being dragged
onSeriesDrop(targetId) ==
  /\ DragOver
  /\ dragSeriesId' = NullId
  /\ dragSession' = AfterDrop
  /\ IF dragSeriesId = NullId \/ dragSeriesId = targetId
       THEN UNCHANGED <<series, effects>>
       ELSE /\ series' = MovedSeries(series, dragSeriesId, targetId)
            /\ effects' = IF IndexOfId(series, dragSeriesId) = 0 \/ IndexOfId(series, targetId) = 0
                            THEN effects ELSE {"selection", "slots"}
  /\ lastDrop' = [kind |-> "series", source |-> dragSeriesId, target |-> targetId,
                  before |-> SeriesOrder(series), session |-> dragSession]
  /\ lastChange' = NoChange
  /\ UNCHANGED <<rows, selectedSeriesIds, slotVars, chartVars, renameVars, rowEditVars,
                 dragRowKey, rowDragOverKey, rowDragPosition, sweepVars, sweepSeen>>

(***************************************************************************)
(* Selection & Mapping State                                               *)
(***************************************************************************)
\* Object.keys(row): the properties in the order they were first written
KeysOf(row) ==
  <<KeyColumn>> \o SelectSeq(SubSeq(AllSeriesIds, 1, NumSeries), LAMBDA id : id \in DOMAIN row.fields)
    \o (IF row.hidden = Undefined THEN <<>> ELSE <<HiddenProperty>>)

\* labelOptions
LabelOptions(rs, ser) ==
  IF Len(rs) = 0 THEN <<KeyColumn>>
  ELSE LET hidden == {ser[i].id : i \in {j \in 1..Len(ser) : ~ser[j].visible}}
       IN SelectSeq(KeysOf(rs[1]), LAMBDA c : c \notin hidden)

\* a change of chart type that also puts the bin count back to its default
setChartTypeResettingBins(type) ==
  /\ PointerFree
  /\ chartType' = type
  /\ histogramBins' = 10
  /\ lastDrop' = NoDrop
  /\ lastChange' = NoChange
  /\ UNCHANGED <<rows, series, selectedSeriesIds, slotVars, renameVars,
                 rowEditVars, dragVars, sweepVars, effects, sweepSeen>>

\* onChange of the chart type select
setChartType(type) ==
  /\ PointerFree
  /\ chartType' = type
  /\ lastDrop' = NoDrop
  /\ lastChange' = NoChange
  /\ UNCHANGED <<rows, series, selectedSeriesIds, slotVars, histogramBins, renameVars,
                 rowEditVars, dragVars, sweepVars, effects, sweepSeen>>

\* the effect of a slot setter on the queue: the slots effect depends on
\* pieSeriesColumn, histogramColumn, scatterYColumn and labelColumn
Queued(old, new) == IF old = new THEN effects ELSE effects \cup {"slots"}

setLabelColumn(col) ==
  /\ PointerFree
  /\ chartType # "scatter"
  /\ Includes(LabelOptions(rows, series), col)
  /\ labelColumn' = col
  /\ effects' = Queued(labelColumn, col)
  /\ lastDrop' = NoDrop
  /\ lastChange' = NoChange
  /\ UNCHANGED <<rows, series, selectedSeriesIds, scatterXColumn, scatterYColumn,
                 scatterSizeColumn, scatterColorColumn, barColorColumn, pieSeriesColumn,
                 histogramColumn, chartVars, renameVars, rowEditVars, dragVars, sweepVars,
                 sweepSeen>>

setPieSeriesColumn(col) ==
  /\ PointerFree
  /\ chartType \in {"pie", "donut"}
  /\ Includes(VisibleIds(series), col)
  /\ pieSeriesColumn' = col
  /\ effects' = Queued(pieSeriesColumn, col)
  /\ lastDrop' = NoDrop
  /\ lastChange' = NoChange
  /\ UNCHANGED <<rows, series, selectedSeriesIds, labelColumn, scatterXColumn,
                 scatterYColumn, scatterSizeColumn, scatterColorColumn, barColorColumn,
                 histogramColumn, chartVars, renameVars, rowEditVars, dragVars, sweepVars,
                 sweepSeen>>

setHistogramColumn(col) ==
  /\ PointerFree
  /\ chartType = "histogram"
  /\ Includes(VisibleIds(series), col)
  /\ histogramColumn' = col
  /\ effects' = Queued(histogramColumn, col)
  /\ lastDrop' = NoDrop
  /\ lastChange' = NoChange
  /\ UNCHANGED <<rows, series, selectedSeriesIds, labelColumn, scatterXColumn,
                 scatterYColumn, scatterSizeColumn, scatterColorColumn, barColorColumn,
                 pieSeriesColumn, chartVars, renameVars, rowEditVars, dragVars, sweepVars,
                 sweepSeen>>

setScatterXColumn(col) ==
  /\ PointerFree
  /\ chartType = "scatter"
  /\ Includes(LabelOptions(rows, series), col)
  /\ scatterXColumn' = col
  /\ lastDrop' = NoDrop
  /\ lastChange' = NoChange
  /\ UNCHANGED <<rows, series, selectedSeriesIds, labelColumn, scatterYColumn,
                 scatterSizeColumn, scatterColorColumn, barColorColumn, pieSeriesColumn,
                 histogramColumn, chartVars, renameVars, rowEditVars, dragVars, sweepVars,
                 effects, sweepSeen>>

setScatterYColumn(col) ==
  /\ PointerFree
  /\ chartType = "scatter"
  /\ Includes(VisibleIds(series), col)
  /\ scatterYColumn' = col
  /\ effects' = Queued(scatterYColumn, col)
  /\ lastDrop' = NoDrop
  /\ lastChange' = NoChange
  /\ UNCHANGED <<rows, series, selectedSeriesIds, labelColumn, scatterXColumn,
                 scatterSizeColumn, scatterColorColumn, barColorColumn, pieSeriesColumn,
                 histogramColumn, chartVars, renameVars, rowEditVars, dragVars, sweepVars,
                 sweepSeen>>

\* LabelColumnSelect with allowNone: '__NONE__' is committed as ''
OptionsWithNone(rs, ser) == <<None>> \o LabelOptions(rs, ser)

setScatterSizeColumn(col) ==
  /\ PointerFree
  /\ chartType = "scatter"
  /\ Includes(OptionsWithNone(rows, series), col)
  /\ scatterSizeColumn' = col
  /\ lastDrop' = NoDrop
  /\ lastChange' = NoChange
  /\ UNCHANGED <<rows, series, selectedSeriesIds, labelColumn, scatterXColumn,
                 scatterYColumn, scatterColorColumn, barColorColumn, pieSeriesColumn,
                 histogramColumn, chartVars, renameVars, rowEditVars, dragVars, sweepVars,
                 effects, sweepSeen>>

setScatterColorColumn(col) ==
  /\ PointerFree
  /\ chartType = "scatter"
  /\ Includes(OptionsWithNone(rows, series), col)
  /\ scatterColorColumn' = col
  /\ lastDrop' = NoDrop
  /\ lastChange' = NoChange
  /\ UNCHANGED <<rows, series, selectedSeriesIds, labelColumn, scatterXColumn,
                 scatterYColumn, scatterSizeColumn, barColorColumn, pieSeriesColumn,
                 histogramColumn, chartVars, renameVars, rowEditVars, dragVars, sweepVars,
                 effects, sweepSeen>>

setBarColorColumn(col) ==
  /\ PointerFree
  /\ chartType \in {"bar", "stackedBar"}
  /\ Includes(OptionsWithNone(rows, series), col)
  /\ barColorColumn' = col
  /\ lastDrop' = NoDrop
  /\ lastChange' = NoChange
  /\ UNCHANGED <<rows, series, selectedSeriesIds, labelColumn, scatterXColumn,
                 scatterYColumn, scatterSizeColumn, scatterColorColumn, pieSeriesColumn,
                 histogramColumn, chartVars, renameVars, rowEditVars, dragVars, sweepVars,
                 effects, sweepSeen>>

\* prev.includes(id) ? prev.filter(x => x !== id) : [...prev, id]
ToggledSelection(prev, id) ==
  IF Includes(prev, id) THEN Without(prev, id) ELSE Append(prev, id)

\* click on a chip or a menu item of MultiSelectSeries, which lists the visible columns
onToggleSelect(id) ==
  /\ PointerFree
  /\ chartType \in {"line", "bar", "stackedBar", "area", "radar"}
  /\ Includes(VisibleIds(series), id)
  /\ selectedSeriesIds' = ToggledSelection(selectedSeriesIds, id)
  /\ lastDrop' = NoDrop
  /\ lastChange' = NoChange
  /\ UNCHANGED <<rows, series, slotVars, chartVars, renameVars, rowEditVars, dragVars,
                 sweepVars, effects, sweepSeen>>

(***************************************************************************)
(* Consistency Reconciler: the two effects                                 *)
(***************************************************************************)
\* the updater without the automatic selection
FilteredSelection(prev, ser) ==
  SelectSeq(prev, LAMBDA id : Includes(VisibleIds(ser), id))

\* the updater selecting the visible columns afresh, in registry order
RegistryOrderSelection(prev, ser) ==
  LET visibleIds == VisibleIds(ser)
      filtered == SelectSeq(visibleIds, LAMBDA id : Includes(prev, id))
  IN IF Len(filtered) # 0 THEN filtered
     ELSE SubSeq(visibleIds, 1, Min(3, Len(visibleIds)))

\* the updater of the effect on [series]
ReconciledSelection(prev, ser) ==
  LET visibleIds == VisibleIds(ser)
      filtered == SelectSeq(prev, LAMBDA id : Includes(visibleIds, id))
  IN IF Len(filtered) # 0 THEN filtered
     ELSE SubSeq(visibleIds, 1, Min(3, Len(visibleIds)))

\* visibleIds[0] || ''
FirstVisible(visibleIds) == IF Len(visibleIds) = 0 THEN None ELSE visibleIds[1]

\* the slot falling back to the last visible column
ReconciledSlotLast(slot, ser) ==
  IF Includes(VisibleIds(ser), slot) THEN slot
  ELSE IF Len(VisibleIds(ser)) = 0 THEN None ELSE VisibleIds(ser)[Len(VisibleIds(ser))]

\* the slot left as it is
KeptSlot(slot, ser) == slot

\* if (!visibleIds.includes(slot)) setSlot(visibleIds[0] || '')
\* a slot effect that replaces its slot whenever it runs: by the first
\* visible id, or by the last one when the slot holds the first
AlternatedSlot(slot, ser) ==
  LET visibleIds == VisibleIds(ser)
  IN IF Len(visibleIds) = 0 THEN None
     ELSE IF slot = visibleIds[1] THEN visibleIds[Len(visibleIds)] ELSE visibleIds[1]

ReconciledSlot(slot, ser) ==
  IF Includes(VisibleIds(ser), slot) THEN slot ELSE FirstVisible(VisibleIds(ser))

\* if (labelColumn !== 'key' && !visibleIds.includes(labelColumn)) setLabelColumn('key')
ReconciledLabel(label, ser) ==
  IF label # KeyColumn /\ ~Includes(VisibleIds(ser), label) THEN KeyColumn ELSE label

\* React runs the queued effects of the committed render, in the order of
\* their definition; a slot they change queues the slots effect again
runEffects ==
  /\ effects # {}
  /\ selectedSeriesIds' =
       IF "selection" \in effects THEN ReconciledSelection(selectedSeriesIds, series)
       ELSE selectedSeriesIds
  /\ IF "slots" \in effects
       THEN /\ pieSeriesColumn' = ReconciledSlot(pieSeriesColumn, series)
            /\ histogramColumn' = ReconciledSlot(histogramColumn, series)
            /\ scatterYColumn' = ReconciledSlot(scatterYColumn, series)
            /\ labelColumn' = ReconciledLabel(labelColumn, series)
       ELSE UNCHANGED <<pieSeriesColumn, histogramColumn, scatterYColumn, labelColumn>>
  /\ effects' =
       IF <<pieSeriesColumn', histogramColumn', scatterYColumn', labelColumn'>>
            # <<pieSeriesColumn, histogramColumn, scatterYColumn, labelColumn>>
         THEN {"slots"} ELSE {}
  /\ UNCHANGED <<rows, series, scatterXColumn, scatterSizeColumn, scatterColorColumn,
                 barColorColumn, chartVars, renameVars, rowEditVars, dragVars, sweepVars,
                 lastDrop, lastChange, sweepSeen>>

\* chartType === 'scatter' && !series.some(s => s.id === scatterYColumn && s.visible)
YAxisHiddenWarning ==
  /\ chartType = "scatter"
  /\ ~\E i \in 1..Len(series) : series[i].id = scatterYColumn /\ series[i].visible

\* the value columns renderChartContents reads for the chart type; React
\* renders the state a handler leaves before it runs the queued effects, so
\* every state is one a render reads
RenderedValueColumns ==
  IF chartType \in {"pie", "donut"} THEN {pieSeriesColumn}
  ELSE IF chartType = "histogram" THEN {histogramColumn}
  ELSE IF chartType = "scatter" THEN {scatterYColumn}
  ELSE {}

(***************************************************************************)
(* Row Store                                                               *)
(***************************************************************************)
\* value === '' ? '' : Number(value), kept unless it is NaN
CellValue(value) ==
  IF value = <<>> THEN Str(value)
  ELSE IF IsNaN(StringToNumber(value)) THEN Str(value)
  ELSE StringToNumber(value)

\* the updater that writes the value to every row
EditedColumn(prev, rowIndex, field, value) ==
  [i \in 1..Len(prev) |->
     [prev[i] EXCEPT !.fields = [id \in DOMAIN @ \cup {field} |->
                                   IF id = field THEN CellValue(value) ELSE @[id]]]]

\* the updater of handleCellChange: next[rowIndex] = { ...next[rowIndex], [field]: v }
EditedRows(prev, rowIndex, field, value) ==
  [prev EXCEPT ![rowIndex] =
     [@ EXCEPT !.fields = LET v == CellValue(value)
                          IN [id \in DOMAIN @ \cup {field} |-> IF id = field THEN v ELSE @[id]]]]

\* the values of the cells of initialRows
InitialCellValues ==
  {NumInt(AllInitialCells[r][i]) : r \in 1..NumRows, i \in 1..NumSeries}

\* the cells that hold a value that was typed
TypedCells(rs) ==
  {c \in (1..Len(rs)) \X SeriesIds : rs[c[1]].fields[c[2]] \notin InitialCellValues}

\* the cells that may be typed into: those that hold a typed value, and
\* every cell while fewer than MaxTypedCells do
OpenCells ==
  LET typed == TypedCells(rows)
  IN IF Cardinality(typed) < MaxTypedCells THEN (1..Len(rows)) \X SeriesIds ELSE typed

\* onChange of the input of a cell of the table
handleCellChange(rowIndex, field, value) ==
  /\ PointerFree
  /\ rows' = EditedRows(rows, rowIndex, field, value)
  /\ lastDrop' = NoDrop
  /\ lastChange' = [kind |-> "handleCellChange", index |-> rowIndex, field |-> field]
  /\ UNCHANGED <<series, selectedSeriesIds, slotVars, chartVars, renameVars, rowEditVars,
                 dragVars, sweepVars, effects, sweepSeen>>

\* prev.map((r, i) => i === index ? { ...r, _hidden: !r._hidden } : r)
HiddenToggled(prev, index) ==
  [i \in 1..Len(prev) |->
     IF i = index THEN [prev[i] EXCEPT !.hidden = Bool(Falsy(prev[i].hidden))] ELSE prev[i]]

\* click on a row header's visibility button (rendered unless the row is renamed)
hideRow(index) ==
  /\ PointerFree
  /\ editingRowIndex # index
  /\ rows' = HiddenToggled(rows, index)
  /\ lastDrop' = NoDrop
  /\ lastChange' = NoChange
  /\ UNCHANGED <<series, selectedSeriesIds, slotVars, chartVars, renameVars, rowEditVars,
                 dragVars, sweepVars, effects, sweepSeen>>

showAllRows ==
  /\ PointerFree
  /\ rows' = [i \in 1..Len(rows) |-> [rows[i] EXCEPT !.hidden = Bool(FALSE)]]
  /\ lastDrop' = NoDrop
  /\ lastChange' = NoChange
  /\ UNCHANGED <<series, selectedSeriesIds, slotVars, chartVars, renameVars, rowEditVars,
                 dragVars, sweepVars, effects, sweepSeen>>

\* String(rows[rowIndex][labelColumn] ?? '')
startEditRowHeader(rowIndex) ==
  /\ PointerFree
  /\ editingRowIndex' = rowIndex
  /\ editingRowValue' =
       IF Prop(rows[rowIndex], labelColumn) = Undefined THEN <<>>
       ELSE String(Prop(rows[rowIndex], labelColumn))
  /\ lastDrop' = NoDrop
  /\ lastChange' = NoChange
  /\ UNCHANGED <<rows, series, selectedSeriesIds, slotVars, chartVars, renameVars,
                 dragVars, sweepVars, effects, sweepSeen>>

\* onChange of the row header's input, which is rendered while a row is renamed
setEditingRowValue(text) ==
  /\ PointerFree
  /\ editingRowIndex # NullIndex
  /\ editingRowValue' = text
  /\ lastDrop' = NoDrop
  /\ lastChange' = NoChange
  /\ UNCHANGED <<rows, series, selectedSeriesIds, slotVars, chartVars, renameVars,
                 editingRowIndex, dragVars, sweepVars, effects, sweepSeen>>

cancelEditRowHeader ==
  /\ PointerFree
  /\ editingRowIndex' = NullIndex
  /\ editingRowValue' = <<>>
  /\ lastDrop' = NoDrop
  /\ lastChange' = [kind |-> "cancelEditRowHeader"]
  /\ UNCHANGED <<rows, series, selectedSeriesIds, slotVars, chartVars, renameVars,
                 dragVars, sweepVars, effects, sweepSeen>>

\* the duplicate check that finds nothing
NeverTaken(prev, index, column, value) == FALSE

\* prev.some((r, i) => i !== editingRowIndex && String(r[labelColumn]) === String(value))
KeyTaken(prev, index, column, value) ==
  \E i \in 1..Len(prev) : i # index /\ String(Prop(prev[i], column)) = value

\* !isNaN(num) && value.match(/^[-+]?\d+(\.\d+)?$/) ? num : value
KeyValue(value) == IF MatchesNumberPattern(value) THEN NumberOf(value) ELSE Str(value)

\* row[column] = v
WithProp(row, column, v) ==
  IF column = KeyColumn THEN [row EXCEPT !.key = v]
  ELSE IF column = HiddenProperty THEN [row EXCEPT !.hidden = v]
  ELSE [row EXCEPT !.fields = [id \in DOMAIN row.fields \cup {column} |->
                                  IF id = column THEN v ELSE row.fields[id]]]

\* the updater of commitEditRowHeader
RenamedRows(prev, index, column, value) ==
  IF column = KeyColumn
    THEN IF KeyTaken(prev, index, column, value) THEN prev
         ELSE [prev EXCEPT ![index] = WithProp(prev[index], column, KeyValue(value))]
    ELSE [prev EXCEPT ![index] = WithProp(prev[index], column, Str(value))]

\* Enter or blur of the input; the function returns at once when no row is renamed
commitEditRowHeader ==
  /\ PointerFree
  /\ LET value == trim(editingRowValue)
     IN IF editingRowIndex = NullIndex
          THEN UNCHANGED <<rows, rowEditVars>>
        ELSE /\ rows' = IF value = <<>> THEN rows
                        ELSE RenamedRows(rows, editingRowIndex, labelColumn, value)
             /\ editingRowIndex' = NullIndex
             /\ editingRowValue' = <<>>
  /\ lastDrop' = NoDrop
  /\ lastChange' = [kind |-> "commitEditRowHeader", index |-> editingRowIndex,
                    value |-> editingRowValue]
  /\ UNCHANGED <<series, selectedSeriesIds, slotVars, chartVars, renameVars, dragVars,
                 sweepVars, effects, sweepSeen>>

\* dragstart of a row's drag handle; refused while a row header is renamed
onRowDragStart(rowKey) ==
  /\ PointerFree
  /\ IF editingRowIndex # NullIndex
       THEN UNCHANGED <<dragRowKey, dragSession>>
       ELSE dragRowKey' = rowKey /\ dragSession' = "row"
  /\ lastDrop' = NoDrop
  /\ lastChange' = NoChange
  /\ UNCHANGED <<rows, series, selectedSeriesIds, slotVars, chartVars, renameVars,
                 rowEditVars, dragSeriesId, rowDragOverKey, rowDragPosition, sweepVars,
                 effects, sweepSeen>>

\* dragover of a row, of whatever is being dragged; pos is the half of the
\* row the pointer is in
onRowDragOver(targetKey, pos) ==
  /\ DragOver
  /\ rowDragOverKey' = targetKey
  /\ rowDragPosition' = pos
  /\ lastDrop' = NoDrop
  /\ lastChange' = NoChange
  /\ UNCHANGED <<rows, series, selectedSeriesIds, slotVars, chartVars, renameVars,
                 rowEditVars, dragSeriesId, dragRowKey, dragSession, sweepVars, effects,
                 sweepSeen>>

\* the updater placing the source above the target whatever the position
MovedRowsAbove(prev, sourceKey, targetKey, position) ==
  LET srcIdx == IndexOfKey(prev, sourceKey) - 1
      tgtIdx == IndexOfKey(prev, targetKey) - 1
      insertIndex == IF srcIdx < tgtIdx THEN tgtIdx - 1 ELSE tgtIdx
  IN IF srcIdx = -1 \/ tgtIdx = -1 THEN prev
     ELSE IF insertIndex = srcIdx THEN prev
     ELSE InsertAt(RemoveAt(prev, srcIdx + 1), insertIndex, prev[srcIdx + 1])

\* the updater without the index shift of the removal
MovedRowsUnshifted(prev, sourceKey, targetKey, position) ==
  LET srcIdx == IndexOfKey(prev, sourceKey) - 1
      tgtIdx == IndexOfKey(prev, targetKey) - 1
      insertIndex == tgtIdx + (IF position = "below" THEN 1 ELSE 0)
  IN IF srcIdx = -1 \/ tgtIdx = -1 THEN prev
     ELSE IF insertIndex = srcIdx THEN prev
     ELSE InsertAt(RemoveAt(prev, srcIdx + 1), insertIndex, prev[srcIdx + 1])

\* the updater of onRowDrop
MovedRows(prev, sourceKey, targetKey, position) ==
  LET srcIdx == IndexOfKey(prev, sourceKey) - 1
      tgtIdx == IndexOfKey(prev, targetKey) - 1
      below == tgtIdx + (IF position = "below" THEN 1 ELSE 0)
      insertIndex == IF srcIdx < below THEN below - 1 ELSE below
  IN IF srcIdx = -1 \/ tgtIdx = -1 THEN prev
     ELSE IF insertIndex = srcIdx THEN prev
     ELSE InsertAt(RemoveAt(prev, srcIdx + 1), insertIndex, prev[srcIdx + 1])

\* drop on a row; the browser fires it after a dragover of the same row
onRowDrop(targetKey) ==
  /\ DragOver
  /\ rowDragOverKey = targetKey
  /\ dragRowKey' = NullKey
  /\ dragSession' = AfterDrop
  /\ rows' = IF dragRowKey = NullKey THEN rows
             ELSE MovedRows(rows, dragRowKey, targetKey, rowDragPosition)
  /\ rowDragOverKey' = NullKey
  /\ rowDragPosition' = "null"
  /\ lastDrop' = [kind |-> "row", source |-> dragRowKey, target |-> targetKey,
                  position |-> rowDragPosition, before |-> rows, session |-> dragSession]
  /\ lastChange' = NoChange
  /\ UNCHANGED <<series, selectedSeriesIds, slotVars, chartVars, renameVars, rowEditVars,
                 dragSeriesId, sweepVars, effects, sweepSeen>>

\* dragend of a row's drag handle, dropped or not
onRowDragEnd ==
  /\ AtRest
  /\ dragSession \in {"row", "rowDropped"}
  /\ rowDragOverKey' = NullKey
  /\ rowDragPosition' = "null"
  /\ dragRowKey' = NullKey
  /\ dragSession' = "null"
  /\ lastDrop' = NoDrop
  /\ lastChange' = NoChange
  /\ UNCHANGED <<rows, series, selectedSeriesIds, slotVars, chartVars, renameVars,
                 rowEditVars, dragSeriesId, sweepVars, effects, sweepSeen>>

(***************************************************************************)
(* Sweep-Toggle Controller                                                 *)
(***************************************************************************)
\* primary button pressed on a column header, outside its handle and buttons
handleSeriesHeaderMouseDown(id) ==
  /\ PointerFree
  /\ IF editingSeriesId = id
       THEN UNCHANGED <<series, selectedSeriesIds, sweepVars, effects, lastChange, sweepSeen>>
       ELSE /\ ToggleSeriesVisibleUpdates(id)
            /\ sweepActive' = "series"
            /\ sweepSeriesSet' = sweepSeriesSet \cup {id}
            /\ sweepSeen' = [kind |-> "series", series |-> series, rows |-> rows,
                             touched |-> {id}]
            /\ UNCHANGED sweepRowSet
  /\ lastDrop' = NoDrop
  /\ UNCHANGED <<rows, slotVars, chartVars, renameVars, rowEditVars, dragVars>>

handleSeriesHeaderMouseEnter(id) ==
  /\ AtRest
  /\ IF sweepActive = "series" /\ id \notin sweepSeriesSet
       THEN /\ ToggleSeriesVisibleUpdates(id)
            /\ sweepSeriesSet' = sweepSeriesSet \cup {id}
       ELSE UNCHANGED <<series, selectedSeriesIds, effects, lastChange, sweepSeriesSet>>
  /\ sweepSeen' = IF sweepSeen.kind = "series"
                    THEN [sweepSeen EXCEPT !.touched = @ \cup {id}] ELSE sweepSeen
  /\ lastDrop' = NoDrop
  /\ UNCHANGED <<rows, slotVars, chartVars, renameVars, rowEditVars, dragVars,
                 sweepActive, sweepRowSet>>

\* primary button pressed on the header of the row at index ri
handleRowHeaderMouseDown(ri) ==
  /\ PointerFree
  /\ IF editingRowIndex = ri
       THEN UNCHANGED <<rows, sweepVars, sweepSeen>>
       ELSE /\ rows' = HiddenToggled(rows, ri)
            /\ sweepActive' = "row"
            /\ sweepRowSet' = sweepRowSet \cup {rows[ri].key}
            /\ sweepSeen' = [kind |-> "row", series |-> series, rows |-> rows,
                             touched |-> {ri}]
            /\ UNCHANGED sweepSeriesSet
  /\ lastDrop' = NoDrop
  /\ lastChange' = NoChange
  /\ UNCHANGED <<series, selectedSeriesIds, slotVars, chartVars, renameVars, rowEditVars,
                 dragVars, effects>>

handleRowHeaderMouseEnter(ri) ==
  /\ AtRest
  /\ IF sweepActive = "row" /\ rows[ri].key \notin sweepRowSet
       THEN /\ rows' = HiddenToggled(rows, ri)
            /\ sweepRowSet' = sweepRowSet \cup {rows[ri].key}
       ELSE UNCHANGED <<rows, sweepRowSet>>
  /\ sweepSeen' = IF sweepSeen.kind = "row"
                    THEN [sweepSeen EXCEPT !.touched = @ \cup {ri}] ELSE sweepSeen
  /\ lastDrop' = NoDrop
  /\ lastChange' = NoChange
  /\ UNCHANGED <<series, selectedSeriesIds, slotVars, chartVars, renameVars, rowEditVars,
                 dragVars, sweepActive, sweepSeriesSet, effects>>

\* the listener that leaves the touched sets as they are
endSweepKeepingSets ==
  /\ AtRest
  /\ sweepActive' = "null"
  /\ sweepSeen' = NoSweep
  /\ lastDrop' = NoDrop
  /\ lastChange' = NoChange
  /\ UNCHANGED <<rows, series, selectedSeriesIds, slotVars, chartVars, renameVars,
                 rowEditVars, dragVars, sweepRowSet, sweepSeriesSet, effects>>

\* mouseup on the window
endSweep ==
  /\ AtRest
  /\ sweepActive' = "null"
  /\ sweepRowSet' = {}
  /\ sweepSeriesSet' = {}
  /\ sweepSeen' = NoSweep
  /\ lastDrop' = NoDrop
  /\ lastChange' = NoChange
  /\ UNCHANGED <<rows, series, selectedSeriesIds, slotVars, chartVars, renameVars,
                 rowEditVars, dragVars, effects>>

(***************************************************************************)
(* Chart data.  The numbers of the histogram are kept as fractions n/d     *)
(* with d > 0, as Infinity or -Infinity, or as NaN.  The arithmetic on     *)
(* fractions is exact: the rounding of a double is not modelled.           *)
(***************************************************************************)
\* rows.filter(r => !r._hidden)
ActiveRows(rs) == SelectSeq(rs, LAMBDA r : Falsy(r.hidden))

\* selectedSeriesIds.filter(id => dataVisibleSeries.some(s => s.id === id))
SelectedVisible(ser, selected) == SelectSeq(selected, LAMBDA id : Includes(VisibleIds(ser), id))

\* dataVisibleSeries.filter(s => selectedSeriesIds.includes(s.id)), as ids
ChartSeries(ser, selected) == SelectSeq(VisibleIds(ser), LAMBDA id : Includes(selected, id))

Fraction(n, d) == [k |-> "finite", n |-> n, d |-> d]

InfiniteDouble(neg) == [k |-> "infinite", neg |-> neg]

NaNDouble == [k |-> "nan"]

RECURSIVE Pow10(_)
Pow10(n) == IF n = 0 THEN 1 ELSE 10 * Pow10(n - 1)

\* the number held by a row, as an operand of the arithmetic
DoubleOf(v) ==
  IF IsInfinite(v) THEN InfiniteDouble(v.neg)
  ELSE LET scale == Pow10(Len(v.frac))
           magnitude == v.int * scale + ParseNat(v.frac)
       IN Fraction(IF v.neg THEN 0 - magnitude ELSE magnitude, scale)

\* a < b, for operands that are not NaN
Less(a, b) ==
  IF a.k = "infinite" THEN a.neg /\ ~(b.k = "infinite" /\ b.neg)
  ELSE IF b.k = "infinite" THEN ~b.neg
  ELSE a.n * b.d < b.n * a.d

\* Math.min(...values) of values without NaN
MathMin(values) ==
  CHOOSE v \in {values[i] : i \in 1..Len(values)} :
    \A i \in 1..Len(values) : ~Less(values[i], v)

\* Math.max(...values) of values without NaN
MathMax(values) ==
  CHOOSE v \in {values[i] : i \in 1..Len(values)} :
    \A i \in 1..Len(values) : ~Less(v, values[i])

\* a - b
Minus(a, b) ==
  IF a.k = "nan" \/ b.k = "nan" THEN NaNDouble
  ELSE IF a.k = "infinite"
    THEN IF b.k = "infinite" /\ b.neg = a.neg THEN NaNDouble ELSE a
  ELSE IF b.k = "infinite" THEN InfiniteDouble(~b.neg)
  ELSE Fraction(a.n * b.d - b.n * a.d, a.d * b.d)

\* a * b for fractions
Times(a, b) == Fraction(a.n * b.n, a.d * b.d)

\* a / b; a zero has no sign here
Divided(a, b) ==
  IF a.k = "nan" \/ b.k = "nan" THEN NaNDouble
  ELSE IF a.k = "infinite"
    THEN IF b.k = "infinite" THEN NaNDouble ELSE InfiniteDouble(a.neg # (b.n < 0))
  ELSE IF b.k = "infinite" THEN Fraction(0, 1)
  ELSE IF b.n = 0
    THEN IF a.n = 0 THEN NaNDouble ELSE InfiniteDouble(a.n < 0)
  ELSE IF b.n < 0 THEN Fraction(0 - a.n * b.d, a.d * (0 - b.n))
  ELSE Fraction(a.n * b.d, a.d * b.n)

\* a || 1
OrOne(a) == IF a.k = "nan" \/ (a.k = "finite" /\ a.n = 0) THEN Fraction(1, 1) ELSE a

\* Math.floor(a)
Floor(a) == IF a.k = "finite" THEN Fraction(a.n \div a.d, 1) ELSE a

\* chartRows.map(r => r[histogramColumn]).filter(v => typeof v === 'number')
HistogramValues(rs, column) ==
  LET active == ActiveRows(rs)
  IN SelectSeq([i \in 1..Len(active) |-> Prop(active[i], column)], LAMBDA v : v.t = "number")

\* (max - min) / binCount || 1
BinSize(min, max, binCount) == OrOne(Divided(Minus(max, min), Fraction(binCount, 1)))

\* let idx = Math.floor((v - min) / binSize); if (idx >= binCount) idx = binCount - 1
BinIndex(v, min, binSize, binCount) ==
  LET idx == Floor(Divided(Minus(v, min), binSize))
  IN IF idx.k # "nan" /\ ~Less(idx, Fraction(binCount, 1)) THEN Fraction(binCount - 1, 1) ELSE idx

\* the histogram branch of renderChartContents: the no-data element, the
\* bins handed to the bar chart, or the TypeError of bins[idx].count when
\* bins has no element at idx
Histogram(rs, column, bins) ==
  LET values == HistogramValues(rs, column)
  IN IF values = <<>> THEN [kind |-> "noData"]
     ELSE LET doubles == [i \in 1..Len(values) |-> DoubleOf(values[i])]
              min == MathMin(doubles)
              max == MathMax(doubles)
              binCount == IF bins < 1 THEN 1 ELSE bins
              binSize == BinSize(min, max, binCount)
              idx == [i \in 1..Len(doubles) |-> BinIndex(doubles[i], min, binSize, binCount)]
          IN IF \E i \in 1..Len(idx) : ~(idx[i].k = "finite" /\ idx[i].n \in 0..(binCount - 1))
               THEN [kind |-> "TypeError", min |-> min, max |-> max, binSize |-> binSize]
               ELSE [kind |-> "bins", min |-> min, max |-> max, binSize |-> binSize,
                     index |-> [i \in 1..Len(idx) |-> idx[i].n],
                     count |-> [b \in 0..(binCount - 1) |->
                                  Cardinality({i \in 1..Len(idx) : idx[i].n = b})]]

\* Math.max(1, Math.min(50, Number(e.target.value) || 10)) for a text that
\* is empty or an integer literal
ClampedBins(text) ==
  LET n == StringToNumber(text)
      typed == IF IsNaN(n) \/ Falsy(n) THEN 10 ELSE IF n.neg THEN 0 - n.int ELSE n.int
  IN IF typed > 50 THEN 50 ELSE IF typed < 1 THEN 1 ELSE typed

\* onChange of the bins input of the histogram controls
setHistogramBins(text) ==
  /\ PointerFree
  /\ chartType = "histogram"
  /\ histogramBins' = ClampedBins(text)
  /\ lastDrop' = NoDrop
  /\ lastChange' = NoChange
  /\ UNCHANGED <<rows, series, selectedSeriesIds, slotVars, chartType, renameVars,
                 rowEditVars, dragVars, sweepVars, effects, sweepSeen>>

(***************************************************************************)
(* Inputs                                                                  *)
(***************************************************************************)
\* texts typed into a column header: blank, a taken label in another case
\* and with spaces around it, and a free label
SeriesTexts == {<<" ">>, <<" ", "c", "o", "g", "s", " ">>, <<"S", "a", "l", "e", "s">>}

\* texts typed into a row header: blank, a taken key with spaces around it,
\* another spelling of that number, and a text that is no number
RowTexts == {<<" ">>, <<" ", "2", "0", "1", "9", " ">>, <<"2", "0", "1", "9", ".", "0">>, <<"Q", "1">>}

\* texts typed into a cell: nothing, a number and a text that is no number
CellTexts == {<<>>, <<"7">>, <<"a", "b", "c">>}

\* numbers typed into a cell: a small one, the initial Revenue of the first
\* row, and the name of the number that is not finite
NumberTexts == {<<"7">>, <<"1", "2", "0">>, <<"I", "n", "f", "i", "n", "i", "t", "y">>}

\* texts typed into the bins input: nothing, zero, the ends of the range,
\* a count inside it and one beyond it
BinTexts == {<<>>, <<"0">>, <<"1">>, <<"5">>, <<"5", "0">>, <<"9", "9">>}

Positions == {"above", "below"}

RowIndices == 1..NumRows

CurrentKeys == {rows[i].key : i \in 1..Len(rows)}

SlotOptions == SeriesIds \cup {KeyColumn, HiddenProperty, None}

(***************************************************************************)
(* Specifications                                                          *)
(***************************************************************************)
ColumnRenameStep ==
  \/ \E id \in SeriesIds : startRenameSeries(id)
  \/ \E text \in SeriesTexts : setEditingValue(text)
  \/ commitRenameSeries
  \/ cancelRename

ColumnVisibilityStep ==
  \/ \E id \in SeriesIds : toggleSeriesVisible(id)
  \/ showAllSeries

ColumnDragStep ==
  \/ \E id \in SeriesIds : onSeriesDragStart(id)
  \/ \E id \in SeriesIds : onSeriesDrop(id)
  \/ seriesDragEnd

\* the first two columns of the initial registry
FirstColumns == {AllSeriesIds[1], AllSeriesIds[2]}

\* one of the first two columns renamed to a free label, or to the label
\* it has
FirstColumnsRenameStep ==
  \/ \E id \in FirstColumns : startRenameSeries(id)
  \/ setEditingValue(<<"S", "a", "l", "e", "s">>)
  \/ commitRenameSeries

\* the first two columns dragged onto each other
FirstColumnsDragStep ==
  \/ \E id \in FirstColumns : onSeriesDragStart(id)
  \/ \E id \in FirstColumns : onSeriesDrop(id)
  \/ seriesDragEnd

RowRenameStep ==
  \/ \E ri \in RowIndices : startEditRowHeader(ri)
  \/ \E text \in RowTexts : setEditingRowValue(text)
  \/ commitEditRowHeader
  \/ cancelEditRowHeader

CellStep ==
  \E cell \in OpenCells, text \in CellTexts : handleCellChange(cell[1], cell[2], text)

\* numbers typed into the cells of the column of the histogram
NumberCellStep ==
  \E cell \in OpenCells, text \in NumberTexts :
    cell[2] = histogramColumn /\ handleCellChange(cell[1], cell[2], text)

BinsStep == \E text \in BinTexts : setHistogramBins(text)

RowVisibilityStep ==
  \/ \E ri \in RowIndices : hideRow(ri)
  \/ showAllRows

RowDragStep ==
  \/ \E key \in CurrentKeys : onRowDragStart(key)
  \/ \E key \in CurrentKeys, pos \in Positions : onRowDragOver(key, pos)
  \/ \E key \in CurrentKeys : onRowDrop(key)
  \/ onRowDragEnd

SweepStep ==
  \/ \E id \in SeriesIds : handleSeriesHeaderMouseDown(id)
  \/ \E id \in SeriesIds : handleSeriesHeaderMouseEnter(id)
  \/ \E ri \in RowIndices : handleRowHeaderMouseDown(ri)
  \/ \E ri \in RowIndices : handleRowHeaderMouseEnter(ri)
  \/ endSweep

ReconciledSlotStep ==
  \/ \E col \in SlotOptions : setLabelColumn(col)
  \/ \E col \in SlotOptions : setPieSeriesColumn(col)
  \/ \E col \in SlotOptions : setHistogramColumn(col)
  \/ \E col \in SlotOptions : setScatterYColumn(col)

OtherSlotStep ==
  \/ \E col \in SlotOptions : setScatterXColumn(col)
  \/ \E col \in SlotOptions : setScatterSizeColumn(col)
  \/ \E col \in SlotOptions : setScatterColorColumn(col)
  \/ \E col \in SlotOptions : setBarColorColumn(col)

ChartTypeStep == \E type \in ChartTypes : setChartType(type)

SelectStep == \E id \in SeriesIds : onToggleSelect(id)

\* every handler of the application
Next ==
  \/ runEffects
  \/ ColumnRenameStep
  \/ ColumnVisibilityStep
  \/ ColumnDragStep
  \/ RowRenameStep
  \/ CellStep
  \/ NumberCellStep
  \/ RowVisibilityStep
  \/ RowDragStep
  \/ SweepStep
  \/ ReconciledSlotStep
  \/ OtherSlotStep
  \/ ChartTypeStep
  \/ BinsStep
  \/ SelectStep

Spec == Init /\ [][Next]_vars

\* the Row Store under renames of row headers
RowsNext == runEffects \/ RowRenameStep \/ RowVisibilityStep

RowsSpec == Init /\ [][RowsNext]_vars

\* the Column Registry under renames and visibility changes
ColumnsNext == runEffects \/ ColumnRenameStep \/ ColumnVisibilityStep

ColumnsSpec == Init /\ [][ColumnsNext]_vars

\* sweep gestures over row and column headers
SweepNext == runEffects \/ SweepStep

SweepSpec == Init /\ [][SweepNext]_vars

\* sweep gestures that start on a row header and pass over row and column
\* headers, from every Row Store that renames of row headers reach
RowSweepStep ==
  \/ \E ri \in RowIndices : handleRowHeaderMouseDown(ri)
  \/ \E ri \in RowIndices : handleRowHeaderMouseEnter(ri)
  \/ \E id \in SeriesIds : handleSeriesHeaderMouseEnter(id)
  \/ endSweep

RowSweepNext == runEffects \/ RowSweepStep \/ RowRenameStep

RowSweepSpec == Init /\ [][RowSweepNext]_vars

\* every mapping slot under visibility changes
MappingNext ==
  runEffects \/ ColumnVisibilityStep \/ ChartTypeStep \/ OtherSlotStep

MappingSpec == Init /\ [][MappingNext]_vars

\* the reconciled slots under visibility changes
SlotsNext ==
  runEffects \/ ColumnVisibilityStep \/ ChartTypeStep \/ ReconciledSlotStep

SlotsSpec == Init /\ [][SlotsNext]_vars

\* the multi-series selection under visibility changes, reorders and the picker
SelectionNext == runEffects \/ ColumnVisibilityStep \/ SelectStep \/ ColumnDragStep

SelectionSpec == Init /\ [][SelectionNext]_vars

\* drags and drops of column headers
ColumnDragNext == runEffects \/ ColumnDragStep

ColumnDragSpec == Init /\ [][ColumnDragNext]_vars

\* drags and drops of rows
RowDragNext == runEffects \/ RowDragStep

RowDragSpec == Init /\ [][RowDragNext]_vars

\* drags of column headers and of rows, dropped on column headers and on rows
DragNext == runEffects \/ ColumnDragStep \/ RowDragStep

DragSpec == Init /\ [][DragNext]_vars

\* renames of column headers and of row headers
RenameNext == runEffects \/ ColumnRenameStep \/ RowRenameStep

RenameSpec == Init /\ [][RenameNext]_vars

\* headers entering and leaving edit mode, and drags of both kinds
EditModeStep ==
  \/ \E id \in SeriesIds : startRenameSeries(id)
  \/ cancelRename
  \/ \E ri \in RowIndices : startEditRowHeader(ri)
  \/ cancelEditRowHeader

ModesNext == runEffects \/ EditModeStep \/ ColumnDragStep \/ RowDragStep

ModesSpec == Init /\ [][ModesNext]_vars

\* edits of cells, of hidden and of shown rows
CellsNext == runEffects \/ CellStep \/ RowVisibilityStep

CellsSpec == Init /\ [][CellsNext]_vars

\* hiding and showing columns and rows, by their buttons and by header sweeps
StoreNext == runEffects \/ ColumnVisibilityStep \/ RowVisibilityStep \/ SweepStep

StoreSpec == Init /\ [][StoreNext]_vars

\* hiding and showing columns and rows, reordering columns
PickerNext == runEffects \/ ColumnVisibilityStep \/ RowVisibilityStep \/ ColumnDragStep

PickerSpec == Init /\ [][PickerNext]_vars

\* the histogram: numbers typed into cells, rows hidden and shown, the bin
\* count typed, the chart type chosen
HistogramNext ==
  runEffects \/ NumberCellStep \/ RowVisibilityStep \/ BinsStep \/ ChartTypeStep

HistogramSpec == Init /\ [][HistogramNext]_vars

\* what the chart is given: columns and rows hidden and shown, series
\* selected and deselected
ChartNext == runEffects \/ ColumnVisibilityStep \/ RowVisibilityStep \/ SelectStep

ChartSpec == Init /\ [][ChartNext]_vars

\* the chart type chosen between changes of the bin count, the selection and
\* the visibility of columns
TypeNext == runEffects \/ ChartTypeStep \/ BinsStep \/ SelectStep \/ ColumnVisibilityStep

TypeSpec == Init /\ [][TypeNext]_vars

\* the series picker and every kind of change of the Column Registry:
\* columns hidden and shown, one of the first two columns renamed, the
\* first two columns dragged onto each other
RegistryNext ==
  runEffects \/ SelectStep \/ ColumnVisibilityStep \/ FirstColumnsRenameStep
    \/ FirstColumnsDragStep

RegistrySpec == Init /\ [][RegistryNext]_vars

(***************************************************************************)
(* Row keys and column labels                                              *)
(***************************************************************************)
\* C1: after any sequence of commits of row-header renames, with the row-key
\* column as label column, no two rows have keys with equal string renderings.
C1_UniqueRowKeys ==
  \A i, j \in 1..Len(rows) :
    i # j => String(rows[i].key) # String(rows[j].key)

\* C2: after any sequence of commits of column renames, interleaved with other
\* operations on the Column Registry, no two columns have labels that are
\* equal when compared case-insensitively.
C2_UniqueLabels ==
  \A i, j \in 1..Len(series) :
    i # j => toLowerCase(series[i].label) # toLowerCase(series[j].label)

\* a rename has been committed and accepted: a column carries a new label
C2_Renamed ==
  /\ editingSeriesId = NullId
  /\ \E i \in 1..Len(series) : series[i].label # IdChars(series[i].id)

(***************************************************************************)
(* Sweep gestures                                                          *)
(***************************************************************************)
Xor(a, b) == (a /\ ~b) \/ (~a /\ b)

VisibleOf(ser, id) == ser[IndexOfId(ser, id)].visible

\* C3: during one sweep gesture every header of the gesture's kind that was
\* pressed or entered has been toggled exactly once (its visibility is the
\* opposite of what it was at the press), every other header of that kind
\* not at all, and no header of the other kind has been toggled.
C3_SweepTogglesOnce ==
  /\ sweepSeen.kind = "series" =>
       /\ \A id \in SeriesIds :
            VisibleOf(series, id) = Xor(VisibleOf(sweepSeen.series, id), id \in sweepSeen.touched)
       /\ \A ri \in 1..Len(rows) : Falsy(rows[ri].hidden) = Falsy(sweepSeen.rows[ri].hidden)
  /\ sweepSeen.kind = "row" =>
       /\ \A ri \in 1..Len(rows) :
            Falsy(rows[ri].hidden) = Xor(Falsy(sweepSeen.rows[ri].hidden), ri \in sweepSeen.touched)
       /\ \A id \in SeriesIds : VisibleOf(series, id) = VisibleOf(sweepSeen.series, id)

(***************************************************************************)
(* Mapping slots and the Reconciler                                        *)
(***************************************************************************)
IsVisibleId(col) == Includes(VisibleIds(series), col)

SlotResolved(slot) == slot = None \/ slot = KeyColumn \/ IsVisibleId(slot)

\* C4: at rest every non-empty mapping slot names the row-key column or a
\* column whose visibility is true.
C4_SlotsNameVisibleColumns ==
  AtRest =>
    /\ SlotResolved(labelColumn)
    /\ SlotResolved(scatterXColumn)
    /\ SlotResolved(scatterYColumn)
    /\ SlotResolved(scatterSizeColumn)
    /\ SlotResolved(scatterColorColumn)
    /\ SlotResolved(barColorColumn)
    /\ SlotResolved(pieSeriesColumn)
    /\ SlotResolved(histogramColumn)

\* what C5 says a slot holds after the Reconciler, given what it held before
\* the visibility change
ExpectedSlot(before, now) ==
  IF before \in SeriesIds
    THEN IF IsVisibleId(before) THEN now = before
         ELSE now = (IF Len(VisibleIds(series)) = 0 THEN None ELSE VisibleIds(series)[1])
    ELSE TRUE

\* C5: at rest after a change of column visibility, each of the value,
\* histogram and scatter Y slots that named a column no longer visible holds
\* the first visible column id in registry order, or the empty sentinel when
\* no column is visible; the label column slot that named such a column holds
\* the row-key column; a slot that named a still visible column is unchanged.
C5_SlotsReconciled ==
  (AtRest /\ lastChange.kind = "visibility") =>
    /\ ExpectedSlot(lastChange.pie, pieSeriesColumn)
    /\ ExpectedSlot(lastChange.histogram, histogramColumn)
    /\ ExpectedSlot(lastChange.scatterY, scatterYColumn)
    /\ labelColumn = IF lastChange.label \in SeriesIds /\ ~IsVisibleId(lastChange.label)
                       THEN KeyColumn ELSE lastChange.label

\* a visibility change hid the columns the value and label slots named, and
\* the Reconciler has replaced both while another column is visible
C5_SlotsReplaced ==
  /\ AtRest
  /\ lastChange.kind = "visibility"
  /\ lastChange.pie \in SeriesIds /\ ~IsVisibleId(lastChange.pie)
  /\ pieSeriesColumn \in SeriesIds
  /\ lastChange.label \in SeriesIds /\ ~IsVisibleId(lastChange.label)
  /\ lastChange.histogram \in SeriesIds /\ IsVisibleId(lastChange.histogram)

\* previous selection restricted to the columns that are visible now
StillVisible(selected) == SelectSeq(selected, IsVisibleId)

C6_Restricted ==
  /\ AtRest
  /\ lastChange.kind = "visibility"
  /\ Len(selectedSeriesIds) >= 2
  /\ Len(selectedSeriesIds) < Len(lastChange.selected)
  /\ selectedSeriesIds # SelectSeq(VisibleIds(series), LAMBDA id : Includes(selectedSeriesIds, id))

\* C7 as claimed: in every state at rest, whatever the operations before it,
\* the multi-series selection is non-empty whenever a column is visible.
C7_SelectionNeverEmpty ==
  (AtRest /\ VisibleIds(series) # <<>>) => selectedSeriesIds # <<>>

\* C7 as amended: every pass of the Reconciler that follows a change of the
\* Column Registry leaves the multi-series selection non-empty whenever a
\* column is visible; it is empty at rest only once the user has deselected
\* every series in the picker.
C7_ReconcilerLeavesSelection ==
  [][("selection" \in effects /\ VisibleIds(series') # <<>>) => selectedSeriesIds' # <<>>]_vars

\* the selection emptied by a visibility change is filled by the Reconciler
C7_Refilled ==
  /\ AtRest
  /\ lastChange.kind = "visibility"
  /\ StillVisible(lastChange.selected) = <<>>
  /\ VisibleIds(series) # <<>>
  /\ selectedSeriesIds # <<>>
  /\ Len(VisibleIds(series)) < NumSeries

(***************************************************************************)
(* Reorder Engine                                                          *)
(***************************************************************************)
\* 1-based index of x in a sequence of distinct elements, 0 when absent
IndexIn(seq, x) == IF Includes(seq, x) THEN CHOOSE i \in 1..Len(seq) : seq[i] = x ELSE 0

\* the last event was a drop of the dragged column source on another column
ColumnMoved ==
  /\ lastDrop.kind = "series"
  /\ lastDrop.source # NullId
  /\ lastDrop.source # lastDrop.target

\* C8 as claimed: after a column reorder the source column is immediately
\* before the target column, wherever it was.
C8_SourceBeforeTarget ==
  ColumnMoved =>
    IndexIn(SeriesOrder(series), lastDrop.source) + 1 = IndexIn(SeriesOrder(series), lastDrop.target)

\* C8 as amended: after a column reorder the source column is immediately
\* before the target column when it was right of the target, and immediately
\* after the target column when it was left of the target.
C8_SourceNextToTarget ==
  ColumnMoved =>
    IF IndexIn(lastDrop.before, lastDrop.source) > IndexIn(lastDrop.before, lastDrop.target)
      THEN IndexIn(SeriesOrder(series), lastDrop.source) + 1
             = IndexIn(SeriesOrder(series), lastDrop.target)
      ELSE IndexIn(SeriesOrder(series), lastDrop.source)
             = IndexIn(SeriesOrder(series), lastDrop.target) + 1

\* a column was dropped on a column right of it that was not its neighbour
C8_MovedRight ==
  /\ ColumnMoved
  /\ IndexIn(lastDrop.before, lastDrop.source) + 1 < IndexIn(lastDrop.before, lastDrop.target)

\* C9: after a column reorder with distinct ids the source column holds the
\* index the target held before; a drop with no dragged column, or of a
\* column on itself, leaves the order unchanged.
C9_SourceTakesTargetIndex ==
  lastDrop.kind = "series" =>
    IF lastDrop.source = NullId \/ lastDrop.source = lastDrop.target
      THEN SeriesOrder(series) = lastDrop.before
      ELSE IndexIn(SeriesOrder(series), lastDrop.source)
             = IndexIn(lastDrop.before, lastDrop.target)

\* COGS dropped on Revenue in [Revenue, COGS, Operating Expenses]
C9_CogsFirst ==
  /\ lastDrop.kind = "series"
  /\ lastDrop.source = "COGS" /\ lastDrop.target = "Revenue"
  /\ lastDrop.before = SeriesOrder(InitialSeries)
  /\ SubSeq(SeriesOrder(series), 1, 3) = <<"COGS", "Revenue", "Operating Expenses">>

\* the last event was a drop of the dragged row source on another row
RowMoved ==
  /\ lastDrop.kind = "row"
  /\ lastDrop.source # NullKey
  /\ lastDrop.source # lastDrop.target
  /\ Includes(RowOrder(lastDrop.before), lastDrop.source)
  /\ Includes(RowOrder(lastDrop.before), lastDrop.target)

\* the source row is where the drop asks for it in the sequence of keys
InPlace(keys) ==
  IF lastDrop.position = "below"
    THEN IndexIn(keys, lastDrop.source) = IndexIn(keys, lastDrop.target) + 1
    ELSE IndexIn(keys, lastDrop.source) + 1 = IndexIn(keys, lastDrop.target)

\* C10: after a row reorder with distinct keys the source row is immediately
\* above the target row for position above and immediately below it for
\* position below; the Row Store is unchanged when the source was already
\* there, and when the source is the target.
C10_RowNextToTarget ==
  /\ RowMoved =>
       /\ InPlace(RowOrder(rows))
       /\ InPlace(RowOrder(lastDrop.before)) => rows = lastDrop.before
  /\ (lastDrop.kind = "row" /\ lastDrop.source = lastDrop.target) => rows = lastDrop.before

\* a row above the last row was dropped below the last row and is last now
C10_DroppedLast ==
  /\ RowMoved
  /\ lastDrop.position = "below"
  /\ IndexIn(RowOrder(lastDrop.before), lastDrop.target) = NumRows
  /\ IndexIn(RowOrder(lastDrop.before), lastDrop.source) < NumRows - 1
  /\ IndexIn(RowOrder(rows), lastDrop.source) = NumRows

\* the number of places of a sequence that hold x
Count(seq, x) == Cardinality({i \in 1..Len(seq) : seq[i] = x})

IsPermutation(a, b) ==
  /\ Len(a) = Len(b)
  /\ \A i \in 1..Len(a) : Count(a, a[i]) = Count(b, a[i])

\* C11: every column reorder and every row reorder yields a permutation of
\* the previous sequence, and with the moved item taken out the sequence is
\* the previous one with the moved item taken out.
C11_StablePermutation ==
  /\ lastDrop.kind = "series" =>
       /\ IsPermutation(SeriesOrder(series), lastDrop.before)
       /\ Without(SeriesOrder(series), lastDrop.source)
            = Without(lastDrop.before, lastDrop.source)
  /\ lastDrop.kind = "row" =>
       /\ IsPermutation(rows, lastDrop.before)
       /\ Without(RowOrder(rows), lastDrop.source)
            = Without(RowOrder(lastDrop.before), lastDrop.source)

\* the last column was dropped on the first column, past every other column
C11_LastColumnFirst ==
  /\ ColumnMoved
  /\ IndexIn(lastDrop.before, lastDrop.source) = NumSeries
  /\ IndexIn(lastDrop.before, lastDrop.target) = 1
  /\ IndexIn(SeriesOrder(series), lastDrop.source) = 1

\* a and b are neighbours in the sequence
Adjacent(seq, a, b) ==
  /\ Includes(seq, a) /\ Includes(seq, b)
  /\ IndexIn(seq, a) - IndexIn(seq, b) \in {-1, 1}

\* the row drop asked to move the source across the target
Across ==
  IF lastDrop.position = "below"
    THEN IndexIn(RowOrder(lastDrop.before), lastDrop.source)
           < IndexIn(RowOrder(lastDrop.before), lastDrop.target)
    ELSE IndexIn(RowOrder(lastDrop.before), lastDrop.source)
           > IndexIn(RowOrder(lastDrop.before), lastDrop.target)

Opposite(position) == IF position = "below" THEN "above" ELSE "below"

\* C12: once a column A was dropped on its neighbour B, dropping A on B again
\* restores the order before the first drop; once a row A was dropped across
\* its neighbour B (below B, or above B), dropping A on the other side of B
\* restores the Row Store before the first drop.
C12_RoundTrip ==
  /\ (ColumnMoved /\ Adjacent(lastDrop.before, lastDrop.source, lastDrop.target)) =>
       SeriesOrder(MovedSeries(series, lastDrop.source, lastDrop.target)) = lastDrop.before
  /\ (RowMoved /\ Adjacent(RowOrder(lastDrop.before), lastDrop.source, lastDrop.target)
        /\ Across) =>
       MovedRows(rows, lastDrop.source, lastDrop.target, Opposite(lastDrop.position))
         = lastDrop.before

\* a row was dropped above the neighbour it was below, and has moved
C12_MovedAcross ==
  /\ RowMoved
  /\ Adjacent(RowOrder(lastDrop.before), lastDrop.source, lastDrop.target)
  /\ Across
  /\ lastDrop.position = "above"
  /\ rows # lastDrop.before

\* C13 as claimed: once a drag has ended nothing of it is left, the recorded
\* drag source included, and a drop of a drag of the other kind reorders
\* nothing.
C13_AbortedDragLeavesNothing ==
  /\ dragSession = "null" =>
       /\ dragSeriesId = NullId /\ dragRowKey = NullKey
       /\ rowDragOverKey = NullKey /\ rowDragPosition = "null"
  /\ (lastDrop.kind = "series" /\ lastDrop.session # "series") =>
       SeriesOrder(series) = lastDrop.before
  /\ (lastDrop.kind = "row" /\ lastDrop.session # "row") => rows = lastDrop.before

(***************************************************************************)
(* Rendering of the mapping                                                *)
(***************************************************************************)
\* a visibility change has hidden the column the scatter Y slot named
YColumnHidden ==
  /\ lastChange.kind = "visibility"
  /\ lastChange.scatterY \in SeriesIds
  /\ ~IsVisibleId(lastChange.scatterY)

\* C14: at rest after the column the scatter Y slot named was hidden while
\* another column is visible, the Y slot names the first visible column in
\* registry order and the warning condition is false; at rest the warning
\* condition holds only when no column is visible.
C14_YAxisReconciled ==
  AtRest =>
    /\ YAxisHiddenWarning => VisibleIds(series) = <<>>
    /\ (YColumnHidden /\ VisibleIds(series) # <<>>) =>
         /\ scatterYColumn = VisibleIds(series)[1]
         /\ ~YAxisHiddenWarning

\* the scatter chart at rest after its Y column was hidden, another column
\* being visible
C14_YAxisReplaced ==
  /\ AtRest
  /\ chartType = "scatter"
  /\ YColumnHidden
  /\ VisibleIds(series) # <<>>
  /\ scatterYColumn # lastChange.scatterY

\* C15 as claimed: in every state a render reads, the value column the chart
\* type reads (pie value, histogram, scatter Y) is empty or names a visible
\* column.
C15_RenderReadsReconciled ==
  \A col \in RenderedValueColumns : col = None \/ IsVisibleId(col)

(***************************************************************************)
(* Renames                                                                 *)
(***************************************************************************)
\* the step is commitRenameSeries for a header in edit mode
CommitsColumnRename ==
  /\ AtRest
  /\ editingSeriesId # NullId
  /\ lastChange'.kind = "commitRenameSeries"

\* the trimmed text is empty or is, in whatever case, the label of another column
RejectedLabel(trimmed) ==
  \/ trimmed = <<>>
  \/ \E i \in 1..Len(series) :
       series[i].id # editingSeriesId /\ toLowerCase(series[i].label) = toLowerCase(trimmed)

\* C16: a commit of a column rename whose trimmed text is empty or equals
\* case-insensitively the label of another column leaves the Column Registry
\* unchanged and ends edit mode; any other commit gives exactly that column
\* the trimmed text as label and leaves its id, color, visibility and place,
\* and every other column, unchanged.
C16_CommitColumnRename ==
  [][CommitsColumnRename =>
       /\ editingSeriesId' = NullId
       /\ IF RejectedLabel(trim(editingValue))
            THEN series' = series
            ELSE /\ Len(series') = Len(series)
                 /\ \A i \in 1..Len(series) :
                      series'[i] = IF series[i].id = editingSeriesId
                                     THEN [series[i] EXCEPT !.label = trim(editingValue)]
                                     ELSE series[i]]_vars

\* a hidden column has been given the label Sales
C16_HiddenColumnRenamed ==
  /\ lastChange.kind = "commitRenameSeries"
  /\ editingSeriesId = NullId
  /\ \E i \in 1..Len(series) :
       /\ series[i].id = lastChange.id
       /\ ~series[i].visible
       /\ series[i].label = <<"S", "a", "l", "e", "s">>

\* the step is commitEditRowHeader for a row header in edit mode
CommitsRowRename ==
  /\ AtRest
  /\ editingRowIndex # NullIndex
  /\ lastChange'.kind = "commitEditRowHeader"

\* the trimmed text is empty or is the string rendering of another row's key
RejectedKey(value) ==
  \/ value = <<>>
  \/ \E i \in 1..Len(rows) : i # editingRowIndex /\ String(rows[i].key) = value

\* C17: with the row-key column as label column, a commit of a row rename
\* whose trimmed text is empty or equals the string rendering of another
\* row's key leaves the Row Store unchanged and ends edit mode.
C17_RejectedRowRename ==
  [][(CommitsRowRename /\ labelColumn = KeyColumn /\ RejectedKey(trim(editingRowValue))) =>
       /\ rows' = rows
       /\ editingRowIndex' = NullIndex]_vars

\* the rename of row 2020 to 2019 has been committed and the keys are as before
C17_Kept2020 ==
  /\ lastChange.kind = "commitEditRowHeader"
  /\ lastChange.index = 2
  /\ trim(lastChange.value) = <<"2", "0", "1", "9">>
  /\ editingRowIndex = NullIndex
  /\ rows = InitialRows

\* C18: a cancel of a column rename or of a row-header rename ends edit mode
\* and leaves everything but the edit mode and the edit buffer unchanged; a
\* commit with no header in edit mode changes nothing.
C18_CancelLeavesState ==
  [][/\ lastChange'.kind = "cancelRename" =>
          /\ editingSeriesId' = NullId
          /\ UNCHANGED <<rows, series, selectedSeriesIds, slotVars, chartVars, rowEditVars,
                         dragVars, sweepVars, effects>>
     /\ lastChange'.kind = "cancelEditRowHeader" =>
          /\ editingRowIndex' = NullIndex
          /\ UNCHANGED <<rows, series, selectedSeriesIds, slotVars, chartVars, renameVars,
                         dragVars, sweepVars, effects>>
     /\ (AtRest /\ lastChange'.kind = "commitRenameSeries" /\ editingSeriesId = NullId) =>
          UNCHANGED <<rows, series, selectedSeriesIds, slotVars, chartVars, renameVars,
                      rowEditVars, dragVars, sweepVars, effects>>
     /\ (AtRest /\ lastChange'.kind = "commitEditRowHeader" /\ editingRowIndex = NullIndex) =>
          UNCHANGED <<rows, series, selectedSeriesIds, slotVars, chartVars, renameVars,
                      rowEditVars, dragVars, sweepVars, effects>>]_vars

\* a column rename was cancelled with a free label in the edit buffer
C18_CancelledFreeLabel ==
  /\ lastChange.kind = "cancelRename"
  /\ editingSeriesId = NullId
  /\ editingValue = <<"S", "a", "l", "e", "s">>
  /\ \A i \in 1..Len(series) : series[i].label # editingValue

(***************************************************************************)
(* Interaction modes                                                       *)
(***************************************************************************)
\* C19 as claimed: in no state is a column header in edit mode while it is
\* the recorded source of a column drag, nor a row header in edit mode while
\* a source of a row drag is recorded.
C19_RenameAndDragExclusive ==
  /\ editingSeriesId # NullId => dragSeriesId # editingSeriesId
  /\ editingRowIndex # NullIndex => dragRowKey = NullKey

\* the touched sets hold the headers of the gesture under way and no other
TouchedInGesture ==
  /\ sweepActive = "null" => sweepRowSet = {} /\ sweepSeriesSet = {}
  /\ sweepActive = "series" => sweepSeriesSet = sweepSeen.touched /\ sweepRowSet = {}
  /\ sweepActive = "row" =>
       /\ sweepRowSet = {rows[ri].key : ri \in sweepSeen.touched}
       /\ sweepSeriesSet = {}

\* C20: once the primary button is released the sweep controller is idle
\* and its touched sets are empty; while it is idle, entering headers toggles
\* no row and no column; the touched sets of a gesture hold the headers
\* pressed or entered in that gesture only, so that a header touched in an
\* earlier gesture is toggled again.
C20_IdleAfterRelease ==
  [][/\ TouchedInGesture'
     /\ (sweepActive = "null" /\ sweepActive' = "null") => rows' = rows /\ series' = series
     /\ (sweepActive # "null" /\ sweepActive' = "null") =>
          sweepRowSet' = {} /\ sweepSeriesSet' = {}]_vars

\* a gesture has shown again a column that an earlier gesture had hidden
C20_ToggledAgain ==
  /\ sweepActive = "series"
  /\ \E id \in sweepSeen.touched :
       ~VisibleOf(sweepSeen.series, id) /\ VisibleOf(series, id)

(***************************************************************************)
(* Cells                                                                   *)
(***************************************************************************)
\* C21: an edit of a cell replaces only that row's value for that column:
\* every other row, that row's key, hidden flag and other fields, the row
\* order, the Column Registry and all mapping state are unchanged.
C21_EditCellFrame ==
  [][lastChange'.kind = "handleCellChange" /\ AtRest =>
       LET ri == lastChange'.index
           field == lastChange'.field
       IN /\ Len(rows') = Len(rows)
          /\ \A i \in 1..Len(rows) : i # ri => rows'[i] = rows[i]
          /\ rows'[ri].key = rows[ri].key
          /\ rows'[ri].hidden = rows[ri].hidden
          /\ DOMAIN rows'[ri].fields = DOMAIN rows[ri].fields
          /\ \A id \in DOMAIN rows[ri].fields :
               id # field => rows'[ri].fields[id] = rows[ri].fields[id]
          /\ UNCHANGED <<series, selectedSeriesIds, slotVars, chartVars>>]_vars

\* a cell of a hidden row holds the number 7, typed
C21_HiddenCellEdited ==
  /\ lastChange.kind = "handleCellChange"
  /\ rows[lastChange.index].hidden = Bool(TRUE)
  /\ rows[lastChange.index].fields[lastChange.field] = NumInt(7)

(***************************************************************************)
(* Nothing is removed                                                      *)
(***************************************************************************)
\* the hidden flag of every row, by key
HiddenFlags(rs) == {<<rs[i].key, rs[i].hidden>> : i \in 1..Len(rs)}

\* the visibility of every column, by id
VisibleFlags(ser) == {<<ser[i].id, ser[i].visible>> : i \in 1..Len(ser)}

C23_PickersOfferVisibleColumns ==
  /\ Without(LabelOptions(rows, series), KeyColumn) = VisibleIds(series)
  /\ Without(OptionsWithNone(rows, series), KeyColumn) = <<None>> \o VisibleIds(series)

(***************************************************************************)
(* Histogram                                                               *)
(***************************************************************************)
\* the histogram drawn in the current state
RenderedHistogram == Histogram(rows, histogramColumn, histogramBins)

\* value v lies in bin b of a histogram h with binCount bins: at or above
\* the lower boundary of b and below its upper boundary, the last bin
\* taking everything from its lower boundary on
InBin(h, v, b, binCount) ==
  LET d == Minus(v, h.min)
  IN /\ d.k = "finite"
     /\ h.binSize.k = "finite"
     /\ ~Less(d, Times(Fraction(b, 1), h.binSize))
     /\ Less(d, Times(Fraction(b + 1, 1), h.binSize)) \/ b = binCount - 1

\* count[0] + ... + count[binCount - 1]
RECURSIVE SumOfCounts(_, _)
SumOfCounts(count, binCount) ==
  IF binCount = 0 THEN 0 ELSE count[binCount - 1] + SumOfCounts(count, binCount - 1)

\* ten rows holding the values 1 to 10 in one column
ExampleRows ==
  [i \in 1..10 |->
     [key |-> NumInt(i), hidden |-> Undefined, fields |-> [id \in {"Revenue"} |-> NumInt(i)]]]

\* C24: for a non-empty sequence of numeric values and a bin count in
\* 1..50, each value is counted in exactly one bin, the one with index
\* floor((v-min)/binSize) clamped to binCount-1, every index lies in
\* 0..binCount-1 and the counts sum to the number of values; the values
\* 1..10 in 5 bins give 2 per bin.
C24_EveryValueInOneBin ==
  /\ chartType = "histogram" /\ HistogramValues(rows, histogramColumn) # <<>> =>
       LET h == RenderedHistogram
           values == HistogramValues(rows, histogramColumn)
           n == Len(values)
       IN /\ histogramBins \in 1..50
          /\ h.kind = "bins"
          /\ DOMAIN h.count = 0..(histogramBins - 1)
          /\ \A i \in 1..n :
               /\ h.index[i] \in 0..(histogramBins - 1)
               /\ InBin(h, DoubleOf(values[i]), h.index[i], histogramBins)
          /\ \A b \in DOMAIN h.count : h.count[b] = Cardinality({i \in 1..n : h.index[i] = b})
          /\ SumOfCounts(h.count, histogramBins) = n
  /\ Histogram(ExampleRows, "Revenue", 5).kind = "bins"
  /\ Histogram(ExampleRows, "Revenue", 5).count = [b \in 0..4 |-> 2]

\* C25: when no non-hidden row holds a number in the histogram column the
\* no-data result is produced and nothing is computed; when all the numbers
\* are equal, binSize is 1 and every value is counted in bin 0.
C25_NoDataOrOneBin ==
  chartType = "histogram" =>
    LET h == RenderedHistogram
        values == HistogramValues(rows, histogramColumn)
    IN /\ values = <<>> <=> h.kind = "noData"
       /\ (values # <<>> /\ \A i \in 1..Len(values) : values[i] = values[1]) =>
            /\ h.kind = "bins"
            /\ h.binSize = Fraction(1, 1)
            /\ \A i \in 1..Len(values) : h.index[i] = 0
            /\ h.count[0] = Len(values)

(***************************************************************************)
(* Chart input                                                             *)
(***************************************************************************)
\* const chartRows = activeRows
ChartRows == ActiveRows(rows)

\* the series of the multi-series charts
PlottedSeries == ChartSeries(series, selectedSeriesIds)

\* the indices of the rows that are not hidden
ShownRowIndices == {i \in 1..Len(rows) : rows[i].hidden # Bool(TRUE)}

\* C26: the rows passed to the chart are exactly the rows that are not
\* hidden, in Row Store order, and the series plotted by the multi-series
\* charts are exactly the visible columns that are in the multi-series
\* selection, each once, in Column Registry order.
C26_ChartRowsAndSeries ==
  /\ Len(ChartRows) = Cardinality(ShownRowIndices)
  /\ \A i \in ShownRowIndices :
       ChartRows[Cardinality({j \in ShownRowIndices : j <= i})] = rows[i]
  /\ {PlottedSeries[k] : k \in 1..Len(PlottedSeries)} =
       {series[i].id : i \in {j \in 1..Len(series) :
                                series[j].visible /\ Includes(selectedSeriesIds, series[j].id)}}
  /\ \A k, l \in 1..Len(PlottedSeries) :
       k < l => IndexIn(SeriesOrder(series), PlottedSeries[k])
                  < IndexIn(SeriesOrder(series), PlottedSeries[l])

\* a row and a column are hidden and two series are plotted that were
\* selected in the reverse of their registry order
C26_SelectedOutOfOrder ==
  /\ \E i \in 1..Len(rows) : rows[i].hidden = Bool(TRUE)
  /\ \E i \in 1..Len(rows) : rows[i].hidden = Bool(FALSE)
  /\ \E i \in 1..Len(series) : ~series[i].visible
  /\ Len(PlottedSeries) >= 2
  /\ \E k, l \in 1..Len(selectedSeriesIds) :
       /\ k < l
       /\ IndexIn(SeriesOrder(series), selectedSeriesIds[k])
            > IndexIn(SeriesOrder(series), selectedSeriesIds[l])

(***************************************************************************)
(* Chart type                                                              *)
(***************************************************************************)
\* C27: a change of the chart type changes only the chart type: every
\* mapping slot, the multi-series selection, the bin count, the rows and
\* the Column Registry are unchanged, so that changing back restores the
\* state.
C27_ChartTypeFrame ==
  [][chartType' # chartType =>
       UNCHANGED <<labelColumn, scatterXColumn, scatterYColumn, scatterSizeColumn,
                   scatterColorColumn, barColorColumn, pieSeriesColumn, histogramColumn,
                   selectedSeriesIds, histogramBins, rows, series>>]_vars

\* the chart type was changed from histogram after the bin count, the
\* selection and the value slot had been changed
C27_TypeChangedLate ==
  /\ chartType = "pie"
  /\ histogramBins = 5
  /\ selectedSeriesIds = <<"COGS">>
  /\ pieSeriesColumn = "COGS"

(***************************************************************************)
(* Multi-series selection                                                  *)
(***************************************************************************)
\* C28: in every state, the state between a visibility toggle and the
\* Reconciler pass that follows it included, the multi-series selection
\* holds no id twice and only ids of visible columns.
C28_SelectionVisibleAndDistinct ==
  /\ \A k, l \in 1..Len(selectedSeriesIds) :
       k # l => selectedSeriesIds[k] # selectedSeriesIds[l]
  /\ \A k \in 1..Len(selectedSeriesIds) :
       \E i \in 1..Len(series) : series[i].id = selectedSeriesIds[k] /\ series[i].visible

\* a selected column has been hidden and the Reconciler has not run yet
C28_HiddenBeforeReconcile ==
  /\ "selection" \in effects
  /\ lastChange.kind = "visibility"
  /\ \E k \in 1..Len(lastChange.selected) :
       \E i \in 1..Len(series) : series[i].id = lastChange.selected[k] /\ ~series[i].visible

\* visibleIds.slice(0, Math.min(3, visibleIds.length)): the first up to
\* three visible column ids in registry order
FirstUpToThreeVisible(ser) ==
  LET visible == {i \in 1..Len(ser) : ser[i].visible}
      upTo == {i \in visible : Cardinality({j \in visible : j <= i}) <= 3}
  IN [k \in 1..Cardinality(upTo) |->
        ser[CHOOSE i \in upTo : Cardinality({j \in upTo : j <= i}) = k].id]

\* no column that is visible before the step is hidden by it
NothingHidden == \A i \in 1..Len(series) : series[i].visible => VisibleOf(series', series[i].id)

SlotsSettled ==
  /\ \A slot \in {pieSeriesColumn, histogramColumn, scatterYColumn} :
       IsVisibleId(slot) \/ (VisibleIds(series) = <<>> /\ slot = None)
  /\ labelColumn = KeyColumn \/ IsVisibleId(labelColumn)

\* a pass of the selection effect would return the selection it is given
SelectionSettled ==
  /\ \A k \in 1..Len(selectedSeriesIds) : IsVisibleId(selectedSeriesIds[k])
  /\ selectedSeriesIds # <<>> \/ VisibleIds(series) = <<>>

\* C30: the Reconciler reaches a fixed point after a bounded number of
\* passes: a pass leaves the state settled for every effect it ran and
\* queues at most the slot effect again, and a pass over a settled state
\* changes nothing and queues nothing, also when no column is visible and
\* the value, histogram and Y slots are empty.
C30_ReconcilerFixedPoint ==
  [][effects # {} =>
       /\ "slots" \in effects => SlotsSettled'
       /\ "selection" \in effects => SelectionSettled'
       /\ effects' \subseteq {"slots"}
       /\ (SlotsSettled /\ ("selection" \in effects => SelectionSettled)) =>
            /\ effects' = {}
            /\ UNCHANGED <<selectedSeriesIds, slotVars, series, rows, chartVars>>
       /\ (VisibleIds(series) = <<>>
             /\ <<pieSeriesColumn, histogramColumn, scatterYColumn>> = <<None, None, None>>) =>
            <<pieSeriesColumn', histogramColumn', scatterYColumn'>> = <<None, None, None>>]_vars

\* no column is visible, a first pass has emptied the three slots and
\* queued the slot effect again
C30_SecondPassDue ==
  /\ effects = {"slots"}
  /\ VisibleIds(series) = <<>>
  /\ <<pieSeriesColumn, histogramColumn, scatterYColumn>> = <<None, None, None>>
  /\ selectedSeriesIds = <<>>

====
